---- MODULE Spec2Model ----
(***************************************************************************)
(* ElewaService (src/src/modules/elewa/elewaservice.ts): the mention-to-   *)
(* reply orchestration of the bot.  Texts are TLA+ strings, handled as the *)
(* sequences of characters they are (Len, \o, SubSeq, Head, Tail).         *)
(***************************************************************************)
EXTENDS Integers, Sequences, FiniteSets, TLC

(***************************************************************************)
(* Program constants.                                                      *)
(***************************************************************************)
MAX_POST_LENGTH == 300

PROCESSING_TEXT == "Processing your request... (This post will be deleted once the summary is ready.)"

ERROR_TEXT == "Oops! Ran into an issue generating the explanation. Please try again later!"

NO_QUERY_TEXT == "I need some text to explain! Please include a post or question for me to summarize or analyze after mentioning my handle."

\* postRecord(text, replyRef, retries = 5)
postRetries == 5

\* safeGeminiCall(payload, retries = 5)
geminiRetries == 5

(***************************************************************************)
(* Bounds of the model.                                                    *)
(***************************************************************************)
\* network failures (record creations and generation requests) in one run
MaxFailures == 5

\* words of the texts given to splitTextIntoPosts on its own
MaxWords == 10

\* calls of deleteRecord on its own
MaxDeletes == 2

\* network failures in two concurrent runs, together
MaxPairFailures == 5

(***************************************************************************)
(* String primitives of the language runtime.                              *)
(***************************************************************************)
\* s.charAt(i), i 0-based
CharAt(s, i) == SubSeq(s, i + 1, i + 1)

\* s.substring(from, to), 0-based, to exclusive
Substring(s, from, to) == SubSeq(s, from + 1, to)

\* s.substring(from)
SubstringFrom(s, from) == SubSeq(s, from + 1, Len(s))

\* U+000B, U+00A0, U+FEFF and U+1680, written as the characters themselves
LineTabulation == ""

NoBreakSpace == " "

ByteOrderMark == "﻿"

OghamSpaceMark == " "

\* the characters String.prototype.trim removes: WhiteSpace and LineTerminator
\* of ECMAScript.  The remaining ones (U+2000 to U+200A, U+2028, U+2029,
\* U+202F, U+205F, U+3000) cannot be written in a string here, so no text
\* below holds one; the texts of the state machine use the first six.
IsWhitespace(c) ==
    c \in {" ", "\n", "\t", "\r", "\f", LineTabulation, NoBreakSpace, ByteOrderMark,
           OghamSpaceMark}

\* every character of s is whitespace (also when s is empty)
IsBlank(s) == \A i \in 0..(Len(s) - 1) : IsWhitespace(CharAt(s, i))

\* s.trimStart(): s from its first character that is not whitespace
TrimStart(s) ==
    IF IsBlank(s) THEN ""
    ELSE LET first == CHOOSE i \in 0..(Len(s) - 1) :
                          /\ ~IsWhitespace(CharAt(s, i))
                          /\ \A j \in 0..(i - 1) : IsWhitespace(CharAt(s, j))
         IN  SubstringFrom(s, first)

\* s.trimEnd(): s up to its last character that is not whitespace
TrimEnd(s) ==
    IF IsBlank(s) THEN ""
    ELSE LET n == Len(s)
             dropped == CHOOSE k \in 0..(n - 1) :
                            /\ ~IsWhitespace(CharAt(s, n - 1 - k))
                            /\ \A j \in 0..(k - 1) : IsWhitespace(CharAt(s, n - 1 - j))
         IN  Substring(s, 0, n - dropped)

\* s.trim()
Trim(s) == TrimEnd(TrimStart(s))

\* s.lastIndexOf(c): the 0-based index of the last c in s, -1 when there is none
LastIndexOf(s, c) ==
    LET hits == {i \in 0..(Len(s) - 1) : CharAt(s, i) = c}
    IN  IF hits = {} THEN -1
        ELSE CHOOSE i \in hits : \A j \in hits : j <= i

\* s.includes(t)
Includes(s, t) ==
    \E i \in 0..(Len(s) - Len(t)) : Substring(s, i, i + Len(t)) = t

DigitChar(d) == CharAt("0123456789", d)

\* `${n}` for a number n >= 0
RECURSIVE NumberToString(_)
NumberToString(n) ==
    IF n < 10 THEN DigitChar(n)
    ELSE NumberToString(n \div 10) \o DigitChar(n % 10)

\* Math.pow(2, n)
RECURSIVE Pow2(_)
Pow2(n) == IF n = 0 THEN 1 ELSE 2 * Pow2(n - 1)

(***************************************************************************)
(* splitTextIntoPosts                                                      *)
(***************************************************************************)
maxContentLength == MAX_POST_LENGTH - 6

\* variant: the threshold the comment names (more than 10 characters back)
UsefulSplitPointTen(idealSplitPoint) == idealSplitPoint > 10

\* if (idealSplitPoint > 15)
UsefulSplitPoint(idealSplitPoint) == idealSplitPoint > 15

\* variant: the chunk pushed is the whole window, also when the cut is at a space
SplitIterationKeepsWindow(remainingText) ==
    IF Len(remainingText) > maxContentLength
    THEN LET window == Substring(remainingText, 0, maxContentLength)
             idealSplitPoint == LastIndexOf(window, " ")
             splitPoint == IF UsefulSplitPoint(idealSplitPoint)
                           THEN idealSplitPoint ELSE maxContentLength
         IN  [chunk |-> Trim(window),
              rest  |-> Trim(SubstringFrom(remainingText, splitPoint))]
    ELSE [chunk |-> Trim(remainingText),
          rest  |-> Trim(SubstringFrom(remainingText, Len(remainingText)))]

\* variant: the cut is made at the last space with no test on where it is,
\* and at position 0 when the window holds none (substring clamps -1 to 0)
SplitIterationUnguarded(remainingText) ==
    IF Len(remainingText) > maxContentLength
    THEN LET window == Substring(remainingText, 0, maxContentLength)
             idealSplitPoint == LastIndexOf(window, " ")
             splitPoint == IF idealSplitPoint < 0 THEN 0 ELSE idealSplitPoint
         IN  [chunk |-> Trim(Substring(remainingText, 0, splitPoint)),
              rest  |-> Trim(SubstringFrom(remainingText, splitPoint))]
    ELSE [chunk |-> Trim(remainingText),
          rest  |-> Trim(SubstringFrom(remainingText, Len(remainingText)))]

\* variant: the remaining text is not trimmed
SplitIterationRestUntrimmed(remainingText) ==
    IF Len(remainingText) > maxContentLength
    THEN LET window == Substring(remainingText, 0, maxContentLength)
             idealSplitPoint == LastIndexOf(window, " ")
             splitPoint == IF UsefulSplitPoint(idealSplitPoint)
                           THEN idealSplitPoint ELSE maxContentLength
         IN  [chunk |-> Trim(Substring(remainingText, 0, splitPoint)),
              rest  |-> SubstringFrom(remainingText, splitPoint)]
    ELSE [chunk |-> Trim(remainingText),
          rest  |-> SubstringFrom(remainingText, Len(remainingText))]

\* One iteration of the while loop: the chunk pushed and the text remaining.
SplitIteration(remainingText) ==
    IF Len(remainingText) > maxContentLength
    THEN LET window == Substring(remainingText, 0, maxContentLength)
             idealSplitPoint == LastIndexOf(window, " ")
             splitPoint == IF UsefulSplitPoint(idealSplitPoint)
                           THEN idealSplitPoint ELSE maxContentLength
         IN  [chunk |-> Trim(Substring(remainingText, 0, splitPoint)),
              rest  |-> Trim(SubstringFrom(remainingText, splitPoint))]
    ELSE [chunk |-> Trim(remainingText),
          rest  |-> Trim(SubstringFrom(remainingText, Len(remainingText)))]

RECURSIVE SplitLoop(_, _)
SplitLoop(chunks, remainingText) ==
    IF Len(remainingText) > 0
    THEN LET it == SplitIteration(remainingText)
         IN  SplitLoop(Append(chunks, it.chunk), it.rest)
    ELSE chunks

\* variant: the chunks are numbered from 0
PaginationSuffixZeroBased(index, totalParts) ==
    " (" \o NumberToString(index) \o "/" \o NumberToString(totalParts) \o ")"

\* ` (${index + 1}/${totalParts})`, index 0-based
PaginationSuffix(index, totalParts) ==
    " (" \o NumberToString(index + 1) \o "/" \o NumberToString(totalParts) \o ")"

\* variant: a single chunk is numbered too
PaginateAlways(chunks) ==
    LET totalParts == Len(chunks)
    IN  [i \in 1..totalParts |-> chunks[i] \o PaginationSuffix(i - 1, totalParts)]

\* chunks.map((chunk, index) => totalParts > 1 ? chunk + suffix : chunk)
Paginate(chunks) ==
    LET totalParts == Len(chunks)
    IN  [i \in 1..totalParts |->
            IF totalParts > 1
            THEN chunks[i] \o PaginationSuffix(i - 1, totalParts)
            ELSE chunks[i]]

splitTextIntoPosts(text) == Paginate(SplitLoop(<<>>, text))

(***************************************************************************)
(* Values.                                                                 *)
(***************************************************************************)
\* an optional value: absent (undefined), or present
None == <<>>
Some(v) == <<v>>

\* JavaScript truthiness of an optional string: present and not empty
Truthy(opt) == opt # None /\ Len(opt[1]) > 0

PostRef(uri, cid) == [uri |-> uri, cid |-> cid]

NoRef == PostRef("", "")

ReplyRef(root, parent) == [root |-> root, parent |-> parent]

NoReply == ReplyRef(NoRef, NoRef)

\* the reference the platform gives the n-th record it creates (response.data)
CreatedRef(n) ==
    PostRef("at://did:plc:elewa/app.bsky.feed.post/" \o NumberToString(n),
            "bafyrei" \o NumberToString(n))

(***************************************************************************)
(* Retry schedules.                                                        *)
(***************************************************************************)
\* variant: the test is off by one, and no attempt is taken for the last
IsLastAttemptNever(attempt, retries) == attempt = retries

\* if (attempt === retries - 1)
IsLastAttempt(attempt, retries) == attempt = retries - 1

\* variant: a linear backoff
PostDelayLinear(attempt) == (attempt + 1) * 500

\* const delay = Math.pow(2, attempt) * 500 (postRecord)
PostDelay(attempt) == Pow2(attempt) * 500

\* variant: the same delay before every retry
GeminiDelayConstant(attempt) == 1000

\* const delay = Math.pow(2, attempt) * 1000 (safeGeminiCall)
GeminiDelay(attempt) == Pow2(attempt) * 1000

(***************************************************************************)
(* formatSources and the composition of the reply.                         *)
(***************************************************************************)
RECURSIVE FormatFrom(_, _)
FormatFrom(sources, index) ==
    IF index >= Len(sources) THEN ""
    ELSE NumberToString(index + 1) \o ". " \o sources[index + 1].title \o " "
         \o sources[index + 1].uri \o "\n" \o FormatFrom(sources, index + 1)

formatSources(sources) ==
    IF Len(sources) = 0 THEN ""
    ELSE "\n\nSources:\n" \o FormatFrom(sources, 0)

RECURSIVE JoinSourceLines(_, _)
JoinSourceLines(sources, index) ==
    IF index >= Len(sources) THEN ""
    ELSE (IF index > 0 THEN "\n" ELSE "")
         \o "[" \o NumberToString(index + 1) \o "] " \o sources[index + 1].title
         \o " (" \o sources[index + 1].uri \o ")" \o JoinSourceLines(sources, index + 1)

\* the text of the separate, final sources post
SourcesPost(sources) ==
    "\n---\n**Sources (Grounding Metadata):**\n" \o JoinSourceLines(sources, 0)

\* const guidanceText = `@${authorDid} ${NO_QUERY_TEXT}`
GuidanceText(authorDid) == "@" \o authorDid \o " " \o NO_QUERY_TEXT

\* variant: the query is not trimmed before it is tested
IsEmptyQueryUntrimmed(cleanQuery) == Len(cleanQuery) = 0

\* if (!cleanQuery || cleanQuery.trim().length === 0)
IsEmptyQuery(cleanQuery) == Len(cleanQuery) = 0 \/ Len(Trim(cleanQuery)) = 0

\* variant: the text is not trimmed before it is tested
SummaryOfUntrimmed(response) ==
    IF Truthy(response.text) THEN response.text[1] ELSE ERROR_TEXT

\* the text taken from the generation response, or the apology
SummaryOf(response) ==
    IF Truthy(response.text) /\ Len(Trim(response.text[1])) > 0
    THEN response.text[1]
    ELSE ERROR_TEXT

\* .filter((source) => source.uri && source.title)
IsUsableSource(attribution) == Truthy(attribution.uri) /\ Truthy(attribution.title)

\* variant: the attributions are mapped and not filtered
MapSourcesUnfiltered(attributions) ==
    [i \in DOMAIN attributions |->
        [uri |-> IF Truthy(attributions[i].uri) THEN attributions[i].uri[1] ELSE "undefined",
         title |-> IF Truthy(attributions[i].title) THEN attributions[i].title[1]
                   ELSE "undefined"]]

RECURSIVE MapFilterSources(_)
MapFilterSources(attributions) ==
    IF Len(attributions) = 0 THEN <<>>
    ELSE (IF IsUsableSource(Head(attributions))
          THEN <<[uri |-> Head(attributions).uri[1], title |-> Head(attributions).title[1]]>>
          ELSE <<>>)
         \o MapFilterSources(Tail(attributions))

\* the grounding sources of the generation response
SourcesOf(response) ==
    IF response.attributions # None
    THEN MapFilterSources(response.attributions[1])
    ELSE <<>>

\* let baseContent = `@${authorDid} Here is your explanation:\n\n${summaryText}`
BaseContent(authorDid, summary) ==
    "@" \o authorDid \o " Here is your explanation:\n\n" \o summary

\* sources.length > 0 && baseContent.length < MAX_POST_LENGTH - sourceText.length
FitsInline(content, srcs) ==
    Len(srcs) > 0 /\ Len(content) < MAX_POST_LENGTH - Len(formatSources(srcs))

\* baseContent, once the sources are appended when they fit
ComposedContent(authorDid, summary, srcs) ==
    LET content == BaseContent(authorDid, summary)
    IN  IF FitsInline(content, srcs)
        THEN content \o formatSources(srcs)
        ELSE content

\* sources.length > 0 && !baseContent.includes(sourceText)
NeedsSourcesPost(content, srcs) ==
    Len(srcs) > 0 /\ ~Includes(content, formatSources(srcs))

\* postableChunks, as the publish loop receives it
PostableChunks(content, srcs) ==
    LET split == splitTextIntoPosts(content)
    IN  IF NeedsSourcesPost(content, srcs)
        THEN Append(split, SourcesPost(srcs))
        ELSE split

(***************************************************************************)
(* Inputs: the mentions the listener hands over, and what the generation   *)
(* backend answers.                                                        *)
(***************************************************************************)
RECURSIVE Repeat(_, _)
Repeat(word, n) == IF n = 0 THEN "" ELSE word \o Repeat(word, n - 1)

AuthorDids == {"did:plc:ewvi7nxzyoun6zhxrhs64oiz"}

MentionPost ==
    PostRef("at://did:plc:ewvi7nxzyoun6zhxrhs64oiz/app.bsky.feed.post/3kmention",
            "bafyreimention")

\* the thread root: the mention itself, or the post that started the thread
ThreadRoots ==
    {MentionPost,
     PostRef("at://did:plc:z72i7hdynmk6r22z27h6tvur/app.bsky.feed.post/3kroot",
             "bafyreiroot")}

Queries ==
    {"", "  \n", "\f\r" \o LineTabulation, "What is a model checker?"}

Mentions ==
    {[authorDid |-> a, uri |-> MentionPost.uri, cid |-> MentionPost.cid,
      rootUri |-> r.uri, rootCid |-> r.cid,
      postUri |-> MentionPost.uri, postCid |-> MentionPost.cid,
      cleanQuery |-> q] : a \in AuthorDids, r \in ThreadRoots, q \in Queries}

NoMention ==
    [authorDid |-> "", uri |-> "", cid |-> "", rootUri |-> "", rootCid |-> "",
     postUri |-> "", postCid |-> "", cleanQuery |-> ""]

\* a 310-character answer
Answer310 == Repeat("lorem ipsum ", 25) \o "dolor sit."

GoodAttribution ==
    [uri |-> Some("https://lamport.azurewebsites.net/tla/tla.html"),
     title |-> Some("The TLA+ Home Page")]

\* an answer that lists its source itself, the way formatSources writes it
AnswerWithSources ==
    Repeat("lorem ipsum ", 14) \o "dolor sit."
    \o formatSources(<<[uri |-> GoodAttribution.uri[1], title |-> GoodAttribution.title[1]]>>)

\* an answer that ends in blanks, the first of them the last character of the
\* first 294 of the reply
AnswerTrailingBlank == Repeat("lorem ipsum ", 19) \o "dolo" \o " \n"

AnswerTexts ==
    {None, Some(""), Some(" \n\f" \o LineTabulation),
     Some("A model checker explores every reachable state of a design."),
     Some(Answer310), Some(AnswerWithSources), Some(AnswerTrailingBlank)}

UntitledAttribution == [uri |-> Some("https://example.org/untitled"), title |-> None]

LongAttribution ==
    [uri |-> Some("https://example.org/a-long-report"),
     title |-> Some(Repeat("a very long title ", 16))]

UnaddressedAttribution == [uri |-> None, title |-> Some("A page without an address")]

SecondAttribution ==
    [uri |-> Some("https://lamport.azurewebsites.net/tla/book.html"),
     title |-> Some("Specifying Systems: The TLA+ Language and Tools")]

AttributionLists ==
    {None, Some(<<GoodAttribution>>),
     Some(<<UntitledAttribution, GoodAttribution, UnaddressedAttribution, SecondAttribution>>),
     Some(<<LongAttribution>>)}

\* the parsed body of an OK response: candidates[0].content.parts[0].text and
\* candidates[0].groundingMetadata.groundingAttributions (each .web).  Every
\* answer comes without attributions and with the good one; the short answer
\* comes with every list of attributions.
GeminiResponses ==
    {r \in [text : AnswerTexts, attributions : AttributionLists] :
        \/ r.attributions \in {None, Some(<<GoodAttribution>>)}
        \/ r.text = Some("A model checker explores every reachable state of a design.")}

\* how a generation request fails: HTTP 429, another non-OK status, fetch throwing
FetchFailures == {"rate-limit", "status", "transport"}

(***************************************************************************)
(* State.                                                                  *)
(***************************************************************************)
VARIABLES
    pc,                 \* the await the run is at: idle, postRecord (detectFacets),
                        \* createRecord, postBackoff, importEnv, safeGeminiCall
                        \* (fetch), json, geminiBackoff, settled
    promise,            \* the promise handleMention returned
    outcome,            \* how a settled run ended
    data,               \* the MentionEvent of the run
    site,               \* the postRecord call in progress: guidance, placeholder, chain
    attempt,            \* the loop variable of postRecord / safeGeminiCall
    text,               \* postRecord's text argument
    replyRef,           \* postRecord's replyRef argument
    threadPostRef,
    processingPostRef,
    currentParentRef,
    summaryText,
    sources,
    baseContent,        \* the reply body, sources appended when they fit
    postableChunks,
    geminiResponse,     \* the body safeGeminiCall returned, once it has
    chunkIndex,         \* 1-based position in postableChunks of the chunk being posted
    events,             \* what the run did to the outside: record creations,
                        \* generation requests, sleeps, in order
    raised,             \* the errors postRecord and safeGeminiCall threw to
                        \* handleMention, in order
    remainingText,      \* splitTextIntoPosts on its own: its loop variables
    chunks,
    splitPc,
    splitInput,
    splitOutput,
    deleteCalls,        \* deleteRecord on its own: the uri arguments of the calls
                        \* that await the platform
    deletePromise,      \* the promises of the calls that returned, as they settled
    deleteLog,          \* what these calls did and logged, in order
    tasks,              \* two concurrent runs of handleMention: the local
                        \* variables of each, and where it is
    feed,               \* the records the platform created for them, in order
    pairFailures        \* the network failures the two runs have met

runVars == <<pc, promise, outcome, data, site, attempt, text, replyRef, threadPostRef,
             processingPostRef, currentParentRef, summaryText, sources,
             baseContent, geminiResponse, postableChunks, chunkIndex, events, raised>>

splitVars == <<remainingText, chunks, splitPc, splitInput, splitOutput>>

deleteVars == <<deleteCalls, deletePromise, deleteLog>>

pairVars == <<tasks, feed, pairFailures>>

\* the two concurrent runs
Runs == {1, 2}

\* the locals of a run that has not started
IdleTask ==
    [pc |-> "idle", outcome |-> "none", data |-> NoMention, site |-> "none",
     attempt |-> 0, text |-> "", replyRef |-> NoReply, threadPostRef |-> NoRef,
     processingPostRef |-> None, currentParentRef |-> NoRef,
     postableChunks |-> <<>>, chunkIndex |-> 0]

vars == <<runVars, splitVars, deleteVars, pairVars>>

\* an attempt of postRecord: the call site, the post, the loop variable, and the
\* reference created (None when the attempt failed)
CreateEvent(s, t, reply, att, result) ==
    [op |-> "createRecord", site |-> s, text |-> t, reply |-> reply, attempt |-> att,
     result |-> result]

FetchEvent(att, result) == [op |-> "fetch", attempt |-> att, result |-> result]

\* an error thrown to the caller: the wrapper, its loop variable at the throw,
\* and what had failed
Error(by, att, cause) == [by |-> by, attempt |-> att, cause |-> cause]

SleepEvent(by, att, delay) == [op |-> "sleep", by |-> by, attempt |-> att, delay |-> delay]

IsCreate(e) == e.op = "createRecord"

IsFetch(e) == e.op = "fetch"

IsSleep(e) == e.op = "sleep"

Created(e) == IsCreate(e) /\ e.result # None

Failed(e) == (IsCreate(e) /\ e.result = None) \/ (IsFetch(e) /\ e.result # "ok")

\* the records the platform has created so far
NumCreated(log) == Cardinality({i \in DOMAIN log : Created(log[i])})

NumFailures(log) == Cardinality({i \in DOMAIN log : Failed(log[i])})

\* the outside may fail once more.  A bound of the model and no condition of
\* the code: the network fails at most MaxFailures times in one run; the
\* limit of five attempts of each call is IsLastAttempt.
MayFail == NumFailures(events) < MaxFailures

RunIdle ==
    /\ pc = "idle"
    /\ promise = "none"
    /\ outcome = "none"
    /\ data = NoMention
    /\ site = "none"
    /\ attempt = 0
    /\ text = ""
    /\ replyRef = NoReply
    /\ threadPostRef = NoRef
    /\ processingPostRef = None
    /\ currentParentRef = NoRef
    /\ summaryText = ""
    /\ sources = <<>>
    /\ baseContent = ""
    /\ geminiResponse = None
    /\ postableChunks = <<>>
    /\ chunkIndex = 0
    /\ events = <<>>
    /\ raised = <<>>

SplitIdle ==
    /\ remainingText = ""
    /\ chunks = <<>>
    /\ splitPc = "idle"
    /\ splitInput = ""
    /\ splitOutput = <<>>

DeleteIdle ==
    /\ deleteCalls = <<>>
    /\ deletePromise = <<>>
    /\ deleteLog = <<>>

PairIdle ==
    /\ tasks = [r \in Runs |-> IdleTask]
    /\ feed = <<>>
    /\ pairFailures = 0

Init == RunIdle /\ SplitIdle /\ DeleteIdle /\ PairIdle

(***************************************************************************)
(* handleMention.  Each action runs the code from one await to the next.   *)
(***************************************************************************)
\* postRecord(t, reply) is called at call site s: its loop starts
CallPostRecord(s, t, reply) ==
    /\ pc' = "postRecord"
    /\ site' = s
    /\ text' = t
    /\ replyRef' = reply
    /\ attempt' = 0

\* handleMention's promise settles
Settle(how, result) ==
    /\ pc' = "settled"
    /\ outcome' = how
    /\ promise' = result

\* variant: the chunk is rooted at its parent
ChainReplyRefRootless(root, parent) == ReplyRef(parent, parent)

\* the reply reference of a chunk: { root: threadPostRef, parent: currentParentRef }
ChainReplyRef(root, parent) == ReplyRef(root, parent)

\* variant: the parent pointer is left where it was
AdvanceParentStale(current, response) == current

\* currentParentRef = { uri: response.uri, cid: response.cid }
AdvanceParent(current, response) == PostRef(response.uri, response.cid)

\* variant: the generation request is sent without waiting for the placeholder
HandleMentionGeneratesFirst(d) ==
    /\ pc = "idle"
    /\ data' = d
    /\ promise' = "pending"
    /\ IF IsEmptyQuery(d.cleanQuery)
       THEN /\ CallPostRecord("guidance", GuidanceText(d.authorDid),
                              ReplyRef(PostRef(d.rootUri, d.rootCid), PostRef(d.uri, d.cid)))
            /\ UNCHANGED <<threadPostRef, currentParentRef>>
       ELSE /\ threadPostRef' = PostRef(d.rootUri, d.rootCid)
            /\ currentParentRef' = PostRef(d.uri, d.cid)
            /\ pc' = "safeGeminiCall"
            /\ attempt' = 0
            /\ UNCHANGED <<site, text, replyRef>>
    /\ UNCHANGED <<outcome, processingPostRef, summaryText, sources, baseContent, geminiResponse,
                   postableChunks, chunkIndex, events, raised, splitVars, deleteVars, pairVars>>

\* handleMention(data) up to its first await
HandleMention(d) ==
    /\ pc = "idle"
    /\ data' = d
    /\ promise' = "pending"
    /\ IF IsEmptyQuery(d.cleanQuery)
       THEN /\ CallPostRecord("guidance", GuidanceText(d.authorDid),
                              ReplyRef(PostRef(d.rootUri, d.rootCid), PostRef(d.uri, d.cid)))
            /\ UNCHANGED <<threadPostRef, currentParentRef>>
       ELSE /\ threadPostRef' = PostRef(d.rootUri, d.rootCid)
            /\ currentParentRef' = PostRef(d.uri, d.cid)
            /\ CallPostRecord("placeholder", PROCESSING_TEXT,
                              ReplyRef(PostRef(d.rootUri, d.rootCid), PostRef(d.uri, d.cid)))
    /\ UNCHANGED <<outcome, processingPostRef, summaryText, sources, baseContent, geminiResponse,
                   postableChunks, chunkIndex, events, raised, splitVars, deleteVars, pairVars>>

\* the reference createRecord returns for the record it creates now
NewRef == CreatedRef(NumCreated(events) + 1)

\* await richText.detectFacets(this.bsky) resolves: createRecord is called
FacetsDetected ==
    /\ pc = "postRecord"
    /\ pc' = "createRecord"
    /\ UNCHANGED <<promise, outcome, data, site, attempt, text, replyRef, threadPostRef,
                   processingPostRef, currentParentRef, summaryText, sources, baseContent,
                   geminiResponse, postableChunks, chunkIndex, events, raised, splitVars, deleteVars, pairVars>>

\* createRecord resolves: the attempt of postRecord succeeds
AttemptCreates ==
    /\ pc = "createRecord"
    /\ events' = Append(events, CreateEvent(site, text, replyRef, attempt, Some(NewRef)))

\* the guidance reply is created: handleMention returns
GuidancePosted ==
    /\ site = "guidance"
    /\ AttemptCreates
    /\ Settle("guidance", "resolved")
    /\ UNCHANGED <<data, site, attempt, text, replyRef, threadPostRef, processingPostRef,
                   currentParentRef, summaryText, sources, baseContent, geminiResponse,
                   postableChunks, chunkIndex, raised, splitVars, deleteVars, pairVars>>

\* the placeholder is created: safeGeminiCall starts, up to its await import
PlaceholderPosted ==
    /\ site = "placeholder"
    /\ AttemptCreates
    /\ processingPostRef' = Some(NewRef)
    /\ currentParentRef' = NewRef
    /\ pc' = "importEnv"
    /\ UNCHANGED <<promise, outcome, data, site, attempt, text, replyRef, threadPostRef,
                   summaryText, sources, baseContent, geminiResponse, postableChunks, chunkIndex,
                   raised, splitVars, deleteVars, pairVars>>

\* a chunk is created: the loop goes to the next chunk, or the run is done
ChunkPosted ==
    /\ site = "chain"
    /\ AttemptCreates
    /\ currentParentRef' = AdvanceParent(currentParentRef, NewRef)
    /\ IF chunkIndex < Len(postableChunks)
       THEN /\ chunkIndex' = chunkIndex + 1
            /\ CallPostRecord("chain", postableChunks[chunkIndex + 1],
                              ChainReplyRef(threadPostRef, currentParentRef'))
            /\ UNCHANGED <<promise, outcome>>
       ELSE /\ Settle("done", "resolved")
            /\ UNCHANGED <<site, text, replyRef, attempt, chunkIndex>>
    /\ UNCHANGED <<data, threadPostRef, processingPostRef, summaryText, sources, baseContent,
                   geminiResponse, postableChunks, raised, splitVars, deleteVars, pairVars>>

\* an attempt of postRecord fails (detectFacets or createRecord rejects) and
\* it is not the last: log, then sleep
PostRecordRetry ==
    /\ pc \in {"postRecord", "createRecord"}
    /\ MayFail
    /\ ~IsLastAttempt(attempt, postRetries)
    /\ events' = events \o <<CreateEvent(site, text, replyRef, attempt, None),
                             SleepEvent("postRecord", attempt, PostDelay(attempt))>>
    /\ pc' = "postBackoff"
    /\ UNCHANGED <<promise, outcome, data, site, attempt, text, replyRef, threadPostRef,
                   processingPostRef, currentParentRef, summaryText, sources, baseContent,
                   geminiResponse, postableChunks, chunkIndex, raised, splitVars, deleteVars, pairVars>>

\* variant: the loop variable is not advanced
PostRecordWakeSameAttempt ==
    /\ pc = "postBackoff"
    /\ pc' = "postRecord"
    /\ UNCHANGED <<promise, outcome, data, site, attempt, text, replyRef, threadPostRef,
                   processingPostRef, currentParentRef, summaryText, sources, baseContent,
                   geminiResponse, postableChunks, chunkIndex, events, raised, splitVars, deleteVars, pairVars>>

\* the backoff timer of postRecord fires: next iteration of its loop
PostRecordWake ==
    /\ pc = "postBackoff"
    /\ attempt' = attempt + 1
    /\ pc' = "postRecord"
    /\ UNCHANGED <<promise, outcome, data, site, text, replyRef, threadPostRef,
                   processingPostRef, currentParentRef, summaryText, sources, baseContent,
                   geminiResponse, postableChunks, chunkIndex, events, raised, splitVars, deleteVars, pairVars>>

\* the last attempt of postRecord fails: postRecord throws
LastAttemptFails ==
    /\ pc \in {"postRecord", "createRecord"}
    /\ MayFail
    /\ IsLastAttempt(attempt, postRetries)
    /\ events' = Append(events, CreateEvent(site, text, replyRef, attempt, None))
    /\ raised' = Append(raised, Error("postRecord", attempt, "createRecord"))

\* what handleMention does with the error postRecord throws for the guidance reply
GuidanceError == Settle("rejected", "rejected")

\* postRecord throws for the guidance reply
GuidanceFailed ==
    /\ site = "guidance"
    /\ LastAttemptFails
    /\ GuidanceError
    /\ UNCHANGED <<data, site, attempt, text, replyRef, threadPostRef, processingPostRef,
                   currentParentRef, summaryText, sources, baseContent, geminiResponse,
                   postableChunks, chunkIndex, splitVars, deleteVars, pairVars>>

\* variant: the catch does not return, and the run goes on to the generation
PlaceholderFailedNoReturn ==
    /\ site = "placeholder"
    /\ LastAttemptFails
    /\ pc' = "importEnv"
    /\ UNCHANGED <<promise, outcome, data, site, attempt, text, replyRef, threadPostRef,
                   processingPostRef, currentParentRef, summaryText, sources, baseContent,
                   geminiResponse, postableChunks, chunkIndex, splitVars, deleteVars, pairVars>>

\* postRecord throws for the placeholder: catch, log, return
PlaceholderFailed ==
    /\ site = "placeholder"
    /\ LastAttemptFails
    /\ Settle("failed", "resolved")
    /\ UNCHANGED <<data, site, attempt, text, replyRef, threadPostRef, processingPostRef,
                   currentParentRef, summaryText, sources, baseContent, geminiResponse,
                   postableChunks, chunkIndex, splitVars, deleteVars, pairVars>>

\* variant: the error is caught inside the loop, which goes on to the next chunk
ChunkFailedContinues ==
    /\ site = "chain"
    /\ LastAttemptFails
    /\ IF chunkIndex < Len(postableChunks)
       THEN /\ chunkIndex' = chunkIndex + 1
            /\ CallPostRecord("chain", postableChunks[chunkIndex + 1],
                              ChainReplyRef(threadPostRef, currentParentRef))
            /\ UNCHANGED <<promise, outcome>>
       ELSE /\ Settle("done", "resolved")
            /\ UNCHANGED <<site, text, replyRef, attempt, chunkIndex>>
    /\ UNCHANGED <<data, threadPostRef, processingPostRef, currentParentRef, summaryText,
                   sources, baseContent, geminiResponse, postableChunks, splitVars, deleteVars, pairVars>>

\* postRecord throws for a chunk: the final catch logs
ChunkFailed ==
    /\ site = "chain"
    /\ LastAttemptFails
    /\ Settle("aborted", "resolved")
    /\ UNCHANGED <<data, site, attempt, text, replyRef, threadPostRef, processingPostRef,
                   currentParentRef, summaryText, sources, baseContent, geminiResponse,
                   postableChunks, chunkIndex, splitVars, deleteVars, pairVars>>

\* compose, split, and start publishing the thread
PublishThread(summary, srcs) ==
    LET content == ComposedContent(data.authorDid, summary, srcs)
        posts == PostableChunks(content, srcs)
    IN  /\ baseContent' = content
        /\ postableChunks' = posts
        /\ IF Len(posts) > 0
           THEN /\ chunkIndex' = 1
                /\ CallPostRecord("chain", posts[1],
                                  ChainReplyRef(threadPostRef, currentParentRef))
                /\ UNCHANGED <<promise, outcome>>
           ELSE /\ Settle("done", "resolved")
                /\ UNCHANGED <<site, text, replyRef, attempt, chunkIndex>>

\* await import('../../config/env.js') resolves: the retry loop starts and
\* the first request is sent
EnvImported ==
    /\ pc = "importEnv"
    /\ pc' = "safeGeminiCall"
    /\ attempt' = 0
    /\ UNCHANGED <<promise, outcome, data, site, text, replyRef, threadPostRef,
                   processingPostRef, currentParentRef, summaryText, sources, baseContent,
                   geminiResponse, postableChunks, chunkIndex, events, raised, splitVars, deleteVars, pairVars>>

\* fetch resolves with response.ok: safeGeminiCall returns the promise of
\* response.json(), which handleMention awaits
FetchOk ==
    /\ pc = "safeGeminiCall"
    /\ pc' = "json"
    /\ UNCHANGED <<promise, outcome, data, site, attempt, text, replyRef, threadPostRef,
                   processingPostRef, currentParentRef, summaryText, sources, baseContent,
                   geminiResponse, postableChunks, chunkIndex, events, raised, splitVars, deleteVars, pairVars>>

\* response.json() resolves with the body: handleMention goes on with it
GeminiResponded(response) ==
    /\ pc = "json"
    /\ events' = Append(events, FetchEvent(attempt, "ok"))
    /\ geminiResponse' = Some(response)
    /\ summaryText' = SummaryOf(response)
    /\ sources' = SourcesOf(response)
    /\ PublishThread(summaryText', sources')
    /\ UNCHANGED <<data, threadPostRef, processingPostRef, currentParentRef, raised, splitVars, deleteVars, pairVars>>

\* a generation request fails and it is not the last: log, then sleep
GeminiRetry(failure) ==
    /\ pc = "safeGeminiCall"
    /\ MayFail
    /\ ~IsLastAttempt(attempt, geminiRetries)
    /\ events' = events \o <<FetchEvent(attempt, failure),
                             SleepEvent("safeGeminiCall", attempt, GeminiDelay(attempt))>>
    /\ pc' = "geminiBackoff"
    /\ UNCHANGED <<promise, outcome, data, site, attempt, text, replyRef, threadPostRef,
                   processingPostRef, currentParentRef, summaryText, sources, baseContent,
                   geminiResponse, postableChunks, chunkIndex, raised, splitVars, deleteVars, pairVars>>

\* the backoff timer of safeGeminiCall fires: next iteration of its loop
GeminiWake ==
    /\ pc = "geminiBackoff"
    /\ attempt' = attempt + 1
    /\ pc' = "safeGeminiCall"
    /\ UNCHANGED <<promise, outcome, data, site, text, replyRef, threadPostRef,
                   processingPostRef, currentParentRef, summaryText, sources, baseContent,
                   geminiResponse, postableChunks, chunkIndex, events, raised, splitVars, deleteVars, pairVars>>

\* the last generation request fails: safeGeminiCall throws, handleMention
\* catches and answers with the apology
GeminiFailed(failure) ==
    /\ pc = "safeGeminiCall"
    /\ MayFail
    /\ IsLastAttempt(attempt, geminiRetries)
    /\ events' = Append(events, FetchEvent(attempt, failure))
    /\ raised' = Append(raised, Error("safeGeminiCall", attempt, failure))
    /\ summaryText' = ERROR_TEXT
    /\ PublishThread(summaryText', sources)
    /\ UNCHANGED <<data, threadPostRef, processingPostRef, currentParentRef, sources,
                   geminiResponse, splitVars, deleteVars, pairVars>>

\* a request is answered OK with a body that is not JSON: the promise of
\* response.json(), returned without await, rejects past the retry loop, and
\* handleMention catches and answers with the apology
GeminiUnreadable ==
    /\ pc = "json"
    /\ MayFail
    /\ events' = Append(events, FetchEvent(attempt, "unreadable"))
    /\ raised' = Append(raised, Error("safeGeminiCall", attempt, "unreadable"))
    /\ summaryText' = ERROR_TEXT
    /\ PublishThread(summaryText', sources)
    /\ UNCHANGED <<data, threadPostRef, processingPostRef, currentParentRef, sources,
                   geminiResponse, splitVars, deleteVars, pairVars>>

(***************************************************************************)
(* splitTextIntoPosts on its own, one loop iteration at a time.            *)
(***************************************************************************)
Unit294 == Repeat("abcdefghijklmnopqrstuvwxyz0123456789ABCDEFGHIJKLM", 6)

\* the texts split: each a unit repeated up to MaxWords times
SplitUnits ==
    {"a", " ", "word ", "\n  two  words", "a-word-of-twenty-char ",
     "short words then averyveryveryveryveryveryveryveryveryverylongwordwithoutanyspaceinit",
     Unit294, Unit294 \o "N", Unit294 \o " ", "tiny " \o Unit294,
     "a few short words and then " \o Unit294,
     "fifteen-letters " \o Unit294, "sixteen--letters " \o Unit294,
     "abcdefghijklmnopqrstuvwxyz0123\n",
     "\fabc\f", LineTabulation, "word" \o LineTabulation,
     Repeat("aaaaaaaaaa", 29) \o " \f" \o Repeat("bbbbb", 4)}

SplitTexts == {Repeat(u, n) : u \in SplitUnits, n \in 0..MaxWords}

\* splitTextIntoPosts(t) is entered
SplitCall(t) ==
    /\ splitPc = "idle"
    /\ splitInput' = t
    /\ remainingText' = t
    /\ chunks' = <<>>
    /\ splitPc' = "loop"
    /\ UNCHANGED <<splitOutput, runVars, deleteVars, pairVars>>

\* variant: the loop body runs once before the length is tested
SplitStepAtLeastOnce ==
    /\ splitPc = "loop"
    /\ Len(remainingText) > 0 \/ Len(chunks) = 0
    /\ chunks' = Append(chunks, SplitIteration(remainingText).chunk)
    /\ remainingText' = SplitIteration(remainingText).rest
    /\ UNCHANGED <<splitPc, splitInput, splitOutput, runVars, deleteVars, pairVars>>

\* one iteration of while (remainingText.length > 0)
SplitStep ==
    /\ splitPc = "loop"
    /\ Len(remainingText) > 0
    /\ chunks' = Append(chunks, SplitIteration(remainingText).chunk)
    /\ remainingText' = SplitIteration(remainingText).rest
    /\ UNCHANGED <<splitPc, splitInput, splitOutput, runVars, deleteVars, pairVars>>

\* the loop is over: paginate and return
SplitReturn ==
    /\ splitPc = "loop"
    /\ Len(remainingText) = 0
    /\ splitOutput' = Paginate(chunks)
    /\ splitPc' = "done"
    /\ UNCHANGED <<remainingText, chunks, splitInput, runVars, deleteVars, pairVars>>

(***************************************************************************)
(* deleteRecord on its own.  handleMention does not call it: the call is   *)
(* commented out.                                                          *)
(***************************************************************************)
\* new AtUri(uri) accepts the string: it is not empty and holds no whitespace
ParsesAsAtUri(uri) ==
    /\ Len(uri) > 0
    /\ \A i \in 0..(Len(uri) - 1) : ~IsWhitespace(CharAt(uri, i))

\* atUri.rkey of at://<repo>/<collection>/<rkey>
Rkey(uri) == SubstringFrom(uri, LastIndexOf(uri, "/") + 1)

DeleteUris ==
    {CreatedRef(1).uri, CreatedRef(2).uri, MentionPost.uri, "", "not a uri"}

\* how the platform's deleteRecord fails: the request throws, a non-OK answer
DeleteFailures == {"transport", "status"}

\* a call of deleteRecord, as it ended: what was asked of the platform (None
\* when the call did not get that far), the result, and the logger used
DeleteEvent(uri, rkey, result, logger) ==
    [op |-> "deleteRecord", uri |-> uri, rkey |-> rkey, result |-> result, logger |-> logger]

\* variant: the catch logs and throws the error again
DeleteCatchRethrows(uri, rkey, result) ==
    /\ deleteLog' = Append(deleteLog, DeleteEvent(uri, rkey, result, "error"))
    /\ deletePromise' = Append(deletePromise, "rejected")

\* catch (err) { this.logger.error(...) }: the call returns
DeleteCatch(uri, rkey, result) ==
    /\ deleteLog' = Append(deleteLog, DeleteEvent(uri, rkey, result, "error"))
    /\ deletePromise' = Append(deletePromise, "resolved")

\* the calls made so far: returned, or awaiting the platform
NumDeleteCalls == Len(deleteLog) + Len(deleteCalls)

\* deleteRecord(uri) up to its await; loggedIn: this.bsky.session is set.
\* Nothing keeps a caller from calling again while earlier calls await; the
\* first conjunct is the bound MaxDeletes of the model.
DeleteCall(uri, loggedIn) ==
    /\ NumDeleteCalls < MaxDeletes
    /\ IF ~ParsesAsAtUri(uri)
       THEN DeleteCatch(uri, None, "invalid-uri") /\ UNCHANGED deleteCalls
       ELSE IF ~loggedIn
       THEN DeleteCatch(uri, None, "no-session") /\ UNCHANGED deleteCalls
       ELSE /\ deleteCalls' = Append(deleteCalls, uri)
            /\ UNCHANGED <<deletePromise, deleteLog>>
    /\ UNCHANGED <<runVars, splitVars, pairVars>>

\* the calls awaiting the platform, without the k-th
OtherDeleteCalls(k) == SubSeq(deleteCalls, 1, k - 1) \o SubSeq(deleteCalls, k + 1, Len(deleteCalls))

\* the platform deleted the record of the k-th call awaiting: log, return
DeleteSucceeded(k) ==
    /\ k \in DOMAIN deleteCalls
    /\ deleteLog' = Append(deleteLog,
                           DeleteEvent(deleteCalls[k], Some(Rkey(deleteCalls[k])),
                                       "deleted", "log"))
    /\ deletePromise' = Append(deletePromise, "resolved")
    /\ deleteCalls' = OtherDeleteCalls(k)
    /\ UNCHANGED <<runVars, splitVars, pairVars>>

\* the platform's deleteRecord rejects for the k-th call awaiting: catch
DeleteFailed(k, failure) ==
    /\ k \in DOMAIN deleteCalls
    /\ DeleteCatch(deleteCalls[k], Some(Rkey(deleteCalls[k])), failure)
    /\ deleteCalls' = OtherDeleteCalls(k)
    /\ UNCHANGED <<runVars, splitVars, pairVars>>

NextDelete ==
    \/ \E uri \in DeleteUris, loggedIn \in BOOLEAN : DeleteCall(uri, loggedIn)
    \/ \E k \in 1..MaxDeletes : DeleteSucceeded(k)
    \/ \E k \in 1..MaxDeletes, failure \in DeleteFailures : DeleteFailed(k, failure)

SpecDelete == Init /\ [][NextDelete]_vars

(***************************************************************************)
(* Two runs of handleMention on the same service object, interleaved at    *)
(* their awaits.  They share the two clients: the platform numbers the     *)
(* records of both in the order it creates them.                           *)
(***************************************************************************)
SecondMentionPost ==
    PostRef("at://did:plc:44ybard66vv44zksje25o7dz/app.bsky.feed.post/3ksecond",
            "bafyreisecond")

\* the mention each run is given: the second one is in the thread of the
\* first, or in a thread of its own
PairMentions(r) ==
    IF r = 1
    THEN {[authorDid |-> "did:plc:ewvi7nxzyoun6zhxrhs64oiz",
           uri |-> MentionPost.uri, cid |-> MentionPost.cid,
           rootUri |-> MentionPost.uri, rootCid |-> MentionPost.cid,
           postUri |-> MentionPost.uri, postCid |-> MentionPost.cid,
           cleanQuery |-> q] : q \in {"", "What is a model checker?"}}
    ELSE {[authorDid |-> "did:plc:44ybard66vv44zksje25o7dz",
           uri |-> SecondMentionPost.uri, cid |-> SecondMentionPost.cid,
           rootUri |-> root.uri, rootCid |-> root.cid,
           postUri |-> SecondMentionPost.uri, postCid |-> SecondMentionPost.cid,
           cleanQuery |-> "And what is a proof?"] :
              root \in {MentionPost, SecondMentionPost}}

PairResponses ==
    {[text |-> Some("A model checker explores every reachable state of a design."),
      attributions |-> None],
     [text |-> Some(Answer310), attributions |-> Some(<<GoodAttribution>>)]}

\* a record of the feed: the run that created it, the post, and its reference
FeedRecord(r, t, ref) ==
    [run |-> r, site |-> t.site, text |-> t.text, reply |-> t.replyRef, ref |-> ref]

\* variant: the parent pointer is a field of the service, one for all runs
StoreParentShared(ts, r, ref) ==
    [q \in DOMAIN ts |-> [ts[q] EXCEPT !.currentParentRef = ref]]

\* currentParentRef = ref, in run r: a local variable of that call
StoreParent(ts, r, ref) == [ts EXCEPT ![r].currentParentRef = ref]

\* run r calls postRecord(t, reply) at call site s
StartPost(task, s, t, reply) ==
    [task EXCEPT !.pc = "postRecord", !.site = s, !.text = t, !.replyRef = reply,
                 !.attempt = 0]

\* run r returns
EndRun(task, how) == [task EXCEPT !.pc = "settled", !.outcome = how]

\* run r composes and splits the reply and starts publishing it
StartThread(task, summary, srcs) ==
    LET content == ComposedContent(task.data.authorDid, summary, srcs)
        posts == PostableChunks(content, srcs)
    IN  IF Len(posts) > 0
        THEN StartPost([task EXCEPT !.postableChunks = posts, !.chunkIndex = 1],
                       "chain", posts[1],
                       ChainReplyRef(task.threadPostRef, task.currentParentRef))
        ELSE EndRun([task EXCEPT !.postableChunks = posts], "done")

\* handleMention(d) is called, as run r, and runs to its first await
PairStart(r, d) ==
    /\ tasks[r].pc = "idle"
    /\ LET root == PostRef(d.rootUri, d.rootCid)
           parent == PostRef(d.uri, d.cid)
           entered == [tasks[r] EXCEPT !.data = d]
       IN  tasks' = [tasks EXCEPT ![r] =
               IF IsEmptyQuery(d.cleanQuery)
               THEN StartPost(entered, "guidance", GuidanceText(d.authorDid),
                              ReplyRef(root, parent))
               ELSE StartPost([entered EXCEPT !.threadPostRef = root,
                                              !.currentParentRef = parent],
                              "placeholder", PROCESSING_TEXT, ReplyRef(root, parent))]
    /\ UNCHANGED <<feed, pairFailures, runVars, splitVars, deleteVars>>

\* detectFacets of run r resolves: createRecord is called
PairFacetsDetected(r) ==
    /\ tasks[r].pc = "postRecord"
    /\ tasks' = [tasks EXCEPT ![r].pc = "createRecord"]
    /\ UNCHANGED <<feed, pairFailures, runVars, splitVars, deleteVars>>

\* createRecord of run r resolves, and the run goes on to its next await
PairPosted(r) ==
    /\ tasks[r].pc = "createRecord"
    /\ LET task == tasks[r]
           ref == CreatedRef(Len(feed) + 1)
       IN  /\ feed' = Append(feed, FeedRecord(r, task, ref))
           /\ tasks' =
                 IF task.site = "guidance"
                 THEN [tasks EXCEPT ![r] = EndRun(task, "guidance")]
                 ELSE IF task.site = "placeholder"
                 THEN LET stored == StoreParent(tasks, r, ref)
                      IN  [stored EXCEPT ![r] =
                              [stored[r] EXCEPT !.processingPostRef = Some(ref),
                                                !.pc = "importEnv"]]
                 ELSE LET stored == StoreParent(tasks, r,
                                        AdvanceParent(task.currentParentRef, ref))
                          mine == stored[r]
                      IN  [stored EXCEPT ![r] =
                              IF mine.chunkIndex < Len(mine.postableChunks)
                              THEN StartPost([mine EXCEPT !.chunkIndex = mine.chunkIndex + 1],
                                             "chain",
                                             mine.postableChunks[mine.chunkIndex + 1],
                                             ChainReplyRef(mine.threadPostRef,
                                                           mine.currentParentRef))
                              ELSE EndRun(mine, "done")]
    /\ UNCHANGED <<pairFailures, runVars, splitVars, deleteVars>>

\* an attempt of postRecord of run r fails: sleep, or throw at the last attempt
PairPostFails(r) ==
    /\ tasks[r].pc \in {"postRecord", "createRecord"}
    /\ pairFailures < MaxPairFailures
    /\ pairFailures' = pairFailures + 1
    /\ LET task == tasks[r]
       IN  tasks' = [tasks EXCEPT ![r] =
               IF ~IsLastAttempt(task.attempt, postRetries)
               THEN [task EXCEPT !.pc = "postBackoff"]
               ELSE IF task.site = "guidance" THEN EndRun(task, "rejected")
               ELSE IF task.site = "placeholder" THEN EndRun(task, "failed")
               ELSE EndRun(task, "aborted")]
    /\ UNCHANGED <<feed, runVars, splitVars, deleteVars>>

\* a backoff timer of run r fires: next iteration of the retry loop
PairWake(r) ==
    /\ tasks[r].pc \in {"postBackoff", "geminiBackoff"}
    /\ tasks' = [tasks EXCEPT ![r] =
           [tasks[r] EXCEPT !.attempt = tasks[r].attempt + 1,
                            !.pc = IF tasks[r].pc = "postBackoff"
                                   THEN "postRecord" ELSE "safeGeminiCall"]]
    /\ UNCHANGED <<feed, pairFailures, runVars, splitVars, deleteVars>>

\* the import of run r resolves: its retry loop starts
PairEnvImported(r) ==
    /\ tasks[r].pc = "importEnv"
    /\ tasks' = [tasks EXCEPT ![r] = [tasks[r] EXCEPT !.pc = "safeGeminiCall", !.attempt = 0]]
    /\ UNCHANGED <<feed, pairFailures, runVars, splitVars, deleteVars>>

\* the generation request of run r is answered OK: its body is awaited
PairFetchOk(r) ==
    /\ tasks[r].pc = "safeGeminiCall"
    /\ tasks' = [tasks EXCEPT ![r].pc = "json"]
    /\ UNCHANGED <<feed, pairFailures, runVars, splitVars, deleteVars>>

\* the body of the answer of run r is read
PairGenerated(r, response) ==
    /\ tasks[r].pc = "json"
    /\ tasks' = [tasks EXCEPT ![r] =
           StartThread(tasks[r], SummaryOf(response), SourcesOf(response))]
    /\ UNCHANGED <<feed, pairFailures, runVars, splitVars, deleteVars>>

\* the generation request of run r fails: sleep, or at the last attempt throw
\* to handleMention, which answers with the apology
PairGenerationFails(r) ==
    /\ tasks[r].pc = "safeGeminiCall"
    /\ pairFailures < MaxPairFailures
    /\ pairFailures' = pairFailures + 1
    /\ tasks' = [tasks EXCEPT ![r] =
           IF ~IsLastAttempt(tasks[r].attempt, geminiRetries)
           THEN [tasks[r] EXCEPT !.pc = "geminiBackoff"]
           ELSE StartThread(tasks[r], ERROR_TEXT, <<>>)]
    /\ UNCHANGED <<feed, runVars, splitVars, deleteVars>>

\* the OK answer of run r cannot be read as JSON: the rejection passes
\* safeGeminiCall and is caught by handleMention, which answers with the apology
PairUnreadable(r) ==
    /\ tasks[r].pc = "json"
    /\ pairFailures < MaxPairFailures
    /\ pairFailures' = pairFailures + 1
    /\ tasks' = [tasks EXCEPT ![r] = StartThread(tasks[r], ERROR_TEXT, <<>>)]
    /\ UNCHANGED <<feed, runVars, splitVars, deleteVars>>

NextPair ==
    \/ \E r \in Runs : \E d \in PairMentions(r) : PairStart(r, d)
    \/ \E r \in Runs : PairFacetsDetected(r)
    \/ \E r \in Runs : PairPosted(r)
    \/ \E r \in Runs : PairEnvImported(r)
    \/ \E r \in Runs : PairFetchOk(r)
    \/ \E r \in Runs : PairPostFails(r)
    \/ \E r \in Runs : PairWake(r)
    \/ \E r \in Runs : \E response \in PairResponses : PairGenerated(r, response)
    \/ \E r \in Runs : PairGenerationFails(r)
    \/ \E r \in Runs : PairUnreadable(r)

SpecPair == Init /\ [][NextPair]_vars

NextSplit ==
    \/ \E t \in SplitTexts : SplitCall(t)
    \/ SplitStep
    \/ SplitReturn

SpecSplit == Init /\ [][NextSplit]_vars

Next ==
    \/ \E d \in Mentions : HandleMention(d)
    \/ GuidancePosted
    \/ FacetsDetected
    \/ PlaceholderPosted
    \/ ChunkPosted
    \/ PostRecordRetry
    \/ PostRecordWake
    \/ GuidanceFailed
    \/ PlaceholderFailed
    \/ ChunkFailed
    \/ EnvImported
    \/ FetchOk
    \/ \E response \in GeminiResponses : GeminiResponded(response)
    \/ \E failure \in FetchFailures : GeminiRetry(failure)
    \/ GeminiWake
    \/ \E failure \in FetchFailures : GeminiFailed(failure)
    \/ GeminiUnreadable

Spec == Init /\ [][Next]_vars

\* the call or timer a started run is waiting for settles
NetworkSettles ==
    \/ GuidancePosted
    \/ FacetsDetected
    \/ PlaceholderPosted
    \/ ChunkPosted
    \/ PostRecordRetry
    \/ PostRecordWake
    \/ GuidanceFailed
    \/ PlaceholderFailed
    \/ ChunkFailed
    \/ EnvImported
    \/ FetchOk
    \/ \E response \in GeminiResponses : GeminiResponded(response)
    \/ \E failure \in FetchFailures : GeminiRetry(failure)
    \/ GeminiWake
    \/ \E failure \in FetchFailures : GeminiFailed(failure)
    \/ GeminiUnreadable

\* a run in which every network call and every timer eventually settles
SpecLive == Init /\ [][Next]_vars /\ WF_vars(NetworkSettles)

(***************************************************************************)
(* What the log of a run shows.                                            *)
(***************************************************************************)
Last(log) == log[Len(log)]

MentionRoot == PostRef(data.rootUri, data.rootCid)

MentionParent == PostRef(data.uri, data.cid)

CreateEvents == SelectSeq(events, IsCreate)

FetchEvents == SelectSeq(events, IsFetch)

CreatedEvents == SelectSeq(events, Created)

IsChainCreated(e) == Created(e) /\ e.site = "chain"

Texts(log) == [i \in DOMAIN log |-> log[i].text]

\* the post most recently created before position i of the log, or the mention
LatestCreatedBefore(i) ==
    LET earlier == {j \in 1..(i - 1) : Created(events[j])}
    IN  IF earlier = {} THEN MentionParent
        ELSE events[CHOOSE j \in earlier : \A k \in earlier : k <= j].result[1]

\* postRecord used up its attempts at call site s
Exhausted(s) ==
    \E i \in DOMAIN events :
        /\ IsCreate(events[i])
        /\ events[i].site = s
        /\ events[i].result = None
        /\ events[i].attempt = postRetries - 1

(***************************************************************************)
(* C1: handleMention never throws: whatever the mention and however the    *)
(* publish and generation calls fail, the promise it returns never         *)
(* rejects.                                                                *)
(***************************************************************************)
C1_NeverRejects == promise # "rejected"

(***************************************************************************)
(* C2: every text a run passes to the platform's record creation is at     *)
(* most 300 characters long.                                               *)
(***************************************************************************)
C2_EveryPostFits ==
    \A i \in DOMAIN events :
        IsCreate(events[i]) => Len(events[i].text) <= MAX_POST_LENGTH

(***************************************************************************)
(* C3: every chunk splitTextIntoPosts returns, pagination suffix included, *)
(* is at most 300 characters long, whatever the number of chunks.          *)
(***************************************************************************)
C3_EveryChunkFits ==
    splitPc = "done" =>
        \A i \in DOMAIN splitOutput : Len(splitOutput[i]) <= MAX_POST_LENGTH

(***************************************************************************)
(* C4: in a run with a non-empty query, every publish attempt has as       *)
(* parent the post most recently created by the run, or the mention post   *)
(* while none was created; the parent pointer is that post too, so a       *)
(* failed attempt never advances it.                                       *)
(***************************************************************************)
C4_ParentIsLatestPublished ==
    (pc # "idle" /\ ~IsBlank(data.cleanQuery)) =>
        /\ \A i \in DOMAIN events :
               IsCreate(events[i]) => events[i].reply.parent = LatestCreatedBefore(i)
        /\ currentParentRef = LatestCreatedBefore(Len(events) + 1)

\* a second chunk was created after a failed attempt, as a reply to the first chunk
C4_Witness ==
    \E i, j, k \in DOMAIN events :
        /\ i < j /\ j < k
        /\ IsChainCreated(events[i])
        /\ IsCreate(events[j]) /\ events[j].result = None
        /\ IsChainCreated(events[k])
        /\ events[k].reply.parent = events[i].result[1]

\* every post attempted so far, and the one in progress, is rooted at the thread root
RootOfEveryPost ==
    pc # "idle" =>
        /\ \A i \in DOMAIN events :
               IsCreate(events[i]) => events[i].reply.root = MentionRoot
        /\ replyRef.root = MentionRoot
        /\ ~IsBlank(data.cleanQuery) => threadPostRef = MentionRoot

(***************************************************************************)
(* C5: every post of a run has the thread root of the mention as root; the *)
(* root is set when the run starts and no later step changes it.           *)
(***************************************************************************)
C5_RootFixed ==
    []RootOfEveryPost
    /\ [][pc # "idle" => (data' = data /\ threadPostRef' = threadPostRef)]_vars

\* a chunk was created after a failed attempt, in a thread the mention did not start
C5_Witness ==
    /\ MentionRoot # MentionParent
    /\ \E i, j \in DOMAIN events :
           /\ i < j
           /\ IsCreate(events[i]) /\ events[i].result = None
           /\ IsChainCreated(events[j])
           /\ events[j].reply.root = MentionRoot

\* the generation answered without text, or with nothing but whitespace
BlankAnswer ==
    /\ geminiResponse # None
    /\ (geminiResponse[1].text = None \/ IsBlank(geminiResponse[1].text[1]))

\* every generation request of safeGeminiCall failed
AllFetchesFailed ==
    /\ Len(FetchEvents) = 5
    /\ \A i \in DOMAIN FetchEvents : FetchEvents[i].result \in FetchFailures

(***************************************************************************)
(* C6: when the placeholder is up and the generation fails on every        *)
(* attempt, or answers without text or with blank text, the answer is the  *)
(* apology and the run goes on to publish the thread: the reply body       *)
(* contains the apology, never the blank text.                             *)
(***************************************************************************)
C6_GenerationFailureDegrades ==
    (AllFetchesFailed \/ BlankAnswer) =>
        /\ summaryText = ERROR_TEXT
        /\ site = "chain"
        /\ Includes(baseContent, ERROR_TEXT)
        /\ Len(postableChunks) >= 1
        /\ chunkIndex >= 1
        /\ (pc \in {"postRecord", "createRecord"} /\ chunkIndex = 1) => text = postableChunks[1]
        /\ \A i \in DOMAIN events :
               IsChainCreated(events[i]) =>
                   /\ ~IsBlank(events[i].text)
                   /\ events[i].reply.parent = processingPostRef[1]
                          => Includes(events[i].text, ERROR_TEXT)

\* the generation answered with whitespace only and the reply was published
C6_Witness ==
    /\ geminiResponse # None
    /\ geminiResponse[1].text = Some(" \n\f" \o LineTabulation)
    /\ outcome = "done"
    /\ \E i \in DOMAIN events :
           IsChainCreated(events[i]) /\ Includes(events[i].text, ERROR_TEXT)

(***************************************************************************)
(* C7: when the query is not empty and the placeholder publish fails on    *)
(* every attempt, the run ends failed after exactly 5 publish attempts:    *)
(* no generation request, no chunk published, no delete.                   *)
(***************************************************************************)
C7_PlaceholderFailureEndsRun ==
    Exhausted("placeholder") =>
        /\ pc = "settled"
        /\ outcome = "failed"
        /\ promise = "resolved"
        /\ Len(CreateEvents) = 5
        /\ \A i \in DOMAIN CreateEvents :
               /\ CreateEvents[i].result = None
               /\ CreateEvents[i].text = PROCESSING_TEXT
        /\ Len(FetchEvents) = 0
        /\ \A i \in DOMAIN events : events[i].op # "deleteRecord"
        /\ ~ENABLED Next

C7_Witness ==
    /\ ~IsBlank(data.cleanQuery)
    /\ Exhausted("placeholder")
    /\ outcome = "failed"

(***************************************************************************)
(* C8: when cleanQuery is empty or blank and the publish succeeds, the run *)
(* publishes one post, the guidance message, with the thread root as root  *)
(* and the mention as parent, and ends: no placeholder, no generation      *)
(* request, no other post.                                                 *)
(***************************************************************************)
C8_EmptyQueryGuidanceOnly ==
    (pc # "idle" /\ IsBlank(data.cleanQuery)) =>
        /\ Len(FetchEvents) = 0
        /\ \A i \in DOMAIN CreateEvents :
               /\ CreateEvents[i].text = "@" \o data.authorDid \o " " \o NO_QUERY_TEXT
               /\ CreateEvents[i].reply = ReplyRef(MentionRoot, MentionParent)
        /\ Len(CreatedEvents) <= 1
        /\ Len(CreatedEvents) = 1 =>
               /\ Created(Last(events))
               /\ pc = "settled"
               /\ outcome = "guidance"
               /\ promise = "resolved"
               /\ ~ENABLED Next

\* a blank (not empty) query, answered by the guidance after one retry
C8_Witness ==
    /\ data.cleanQuery = "  \n"
    /\ outcome = "guidance"
    /\ Len(CreatedEvents) = 1
    /\ Len(CreateEvents) = 2

(***************************************************************************)
(* C9: when the publish of chunk i fails after all its retries the chain   *)
(* is aborted: the chunks created are exactly chunks 1..i-1, no later      *)
(* chunk is attempted, and no delete is attempted.                         *)
(***************************************************************************)
C9_ChunkFailureAbortsChain ==
    Exhausted("chain") =>
        /\ pc = "settled"
        /\ outcome = "aborted"
        /\ promise = "resolved"
        /\ Texts(SelectSeq(events, IsChainCreated)) = SubSeq(postableChunks, 1, chunkIndex - 1)
        /\ \A i \in DOMAIN events :
               (IsCreate(events[i]) /\ events[i].site = "chain")
                   => \E j \in 1..chunkIndex : events[i].text = postableChunks[j]
        /\ Last(events) = CreateEvent("chain", postableChunks[chunkIndex],
                                      ReplyRef(MentionRoot, currentParentRef),
                                      postRetries - 1, None)
        /\ \A i \in DOMAIN events : events[i].op # "deleteRecord"
        /\ ~ENABLED Next

\* the first chunk is up, the second failed on every attempt, a third is left
C9_Witness ==
    /\ outcome = "aborted"
    /\ chunkIndex = 2
    /\ Len(postableChunks) = 3
    /\ Len(SelectSeq(events, IsChainCreated)) = 1

(***************************************************************************)
(* C10: when record creation fails k < 5 times and then succeeds,          *)
(* postRecord makes k + 1 attempts and sleeps k times, the i-th sleep      *)
(* (from 0) lasting 500 * 2^i ms, and returns the reference created.       *)
(***************************************************************************)
C10_PublishRetrySchedule ==
    /\ \A p \in DOMAIN events :
           Created(events[p]) =>
               LET e == events[p]
                   k == e.attempt
               IN  /\ k < 5
                   /\ p > 2 * k
                   /\ \A i \in 0..(k - 1) :
                          /\ events[p - 2 * k + 2 * i]
                               = CreateEvent(e.site, e.text, e.reply, i, None)
                          /\ events[p - 2 * k + 2 * i + 1]
                               = SleepEvent("postRecord", i, 500 * 2^i)
    /\ (Len(events) > 0 /\ Created(Last(events)) /\ Last(events).site # "guidance")
           => currentParentRef = Last(events).result[1]
    /\ (Len(events) > 0 /\ Created(Last(events)) /\ Last(events).site = "placeholder")
           => processingPostRef = Some(Last(events).result[1])

\* a post created at the fifth attempt, after four sleeps
C10_Witness ==
    \E p \in DOMAIN events : Created(events[p]) /\ events[p].attempt = 4

\* the fifth attempt of postRecord failed at position p of the log
FifthCreateFailed(p) ==
    IsCreate(events[p]) /\ events[p].result = None /\ events[p].attempt = 4

\* the fifth generation request failed at position p of the log
FifthFetchFailed(p) ==
    IsFetch(events[p]) /\ events[p].attempt = 4 /\ events[p].result \in FetchFailures

(***************************************************************************)
(* C11: when every attempt fails, postRecord and safeGeminiCall (whatever  *)
(* the mix of rate-limit answers, other statuses and transport errors)     *)
(* make exactly 5 attempts and 4 sleeps, one sleep after each attempt but  *)
(* the last, and throw the error of the last attempt to the caller; no     *)
(* value is returned.                                                      *)
(***************************************************************************)
C11_RetryExhaustion ==
    /\ \A p \in DOMAIN events :
           (IsCreate(events[p]) \/ IsFetch(events[p])) => events[p].attempt <= 4
    /\ \A p \in DOMAIN events :
           FifthCreateFailed(p) =>
               /\ p >= 9
               /\ \A i \in 0..4 :
                      /\ IsCreate(events[p - 8 + 2 * i])
                      /\ events[p - 8 + 2 * i].result = None
                      /\ events[p - 8 + 2 * i].attempt = i
                      /\ events[p - 8 + 2 * i].site = events[p].site
                      /\ events[p - 8 + 2 * i].text = events[p].text
                      /\ events[p - 8 + 2 * i].reply = events[p].reply
               /\ \A i \in 0..3 :
                      /\ IsSleep(events[p - 8 + 2 * i + 1])
                      /\ events[p - 8 + 2 * i + 1].by = "postRecord"
               /\ p = Len(events)
               /\ Len(raised) >= 1
               /\ Last(raised) = [by |-> "postRecord", attempt |-> 4, cause |-> "createRecord"]
               /\ pc = "settled"
               /\ outcome \in {"rejected", "failed", "aborted"}
               /\ events[p].site = "placeholder" => processingPostRef = None
               /\ events[p].site = "chain" => currentParentRef = events[p].reply.parent
    /\ \A p \in DOMAIN events :
           FifthFetchFailed(p) =>
               /\ Len(FetchEvents) = 5
               /\ \A i \in 0..4 :
                      /\ IsFetch(events[p - 8 + 2 * i])
                      /\ events[p - 8 + 2 * i].attempt = i
                      /\ events[p - 8 + 2 * i].result \in {"rate-limit", "status", "transport"}
               /\ \A i \in 0..3 :
                      /\ IsSleep(events[p - 8 + 2 * i + 1])
                      /\ events[p - 8 + 2 * i + 1].by = "safeGeminiCall"
               /\ Cardinality({i \in DOMAIN events :
                                   IsSleep(events[i]) /\ events[i].by = "safeGeminiCall"}) = 4
               /\ p < Len(events) => ~IsSleep(events[p + 1])
               /\ raised[1] = [by |-> "safeGeminiCall", attempt |-> 4,
                                cause |-> events[p].result]
               /\ geminiResponse = None
               /\ summaryText = ERROR_TEXT

\* the generation failed five times, in each of the three ways and at last with
\* a rate-limit answer, and the apology was published
C11_Witness ==
    /\ Len(FetchEvents) = 5
    /\ \A f \in FetchFailures : \E i \in 1..5 : FetchEvents[i].result = f
    /\ FetchEvents[5].result = "rate-limit"
    /\ Len(raised) = 1
    /\ outcome = "done"

(***************************************************************************)
(* The thread as its readers see it.                                       *)
(***************************************************************************)
\* the texts of the chunks of the reply chain created so far, in order
PublishedTexts == Texts(SelectSeq(events, IsChainCreated))

\* s starts with t
StartsWith(s, t) == Len(s) >= Len(t) /\ Substring(s, 0, Len(t)) = t

\* s ends with t
EndsWith(s, t) == Len(s) >= Len(t) /\ SubstringFrom(s, Len(s) - Len(t)) = t

\* the post is the separate post of sources
IsSourcesPost(t) == StartsWith(t, "\n---\n**Sources (Grounding Metadata):**\n")

\* the suffix " (i/n)" of part i of n
SuffixOf(i, n) == " (" \o NumberToString(i) \o "/" \o NumberToString(n) \o ")"

\* the posts as returned by the split, with the pagination suffixes removed
Contents(posts) ==
    [i \in DOMAIN posts |->
        IF Len(posts) > 1 /\ EndsWith(posts[i], SuffixOf(i, Len(posts)))
        THEN Substring(posts[i], 0, Len(posts[i]) - Len(SuffixOf(i, Len(posts))))
        ELSE posts[i]]

RECURSIVE JoinWith(_, _)
JoinWith(strings, separator) ==
    IF Len(strings) = 0 THEN ""
    ELSE IF Len(strings) = 1 THEN strings[1]
    ELSE strings[1] \o separator \o JoinWith(Tail(strings), separator)

\* the k-th smallest element of a set of numbers, k from 1
Kth(S, k) == CHOOSE x \in S : Cardinality({y \in S : y < x}) = k - 1

\* the words of s: its maximal runs of characters that are not whitespace
WordsOf(s) ==
    LET n == Len(s)
        starts == {i \in 0..(n - 1) :
                      /\ ~IsWhitespace(CharAt(s, i))
                      /\ (i = 0 \/ IsWhitespace(CharAt(s, i - 1)))}
        ends == {i \in 0..(n - 1) :
                    /\ ~IsWhitespace(CharAt(s, i))
                    /\ (i = n - 1 \/ IsWhitespace(CharAt(s, i + 1)))}
    IN  [k \in 1..Cardinality(starts) |-> Substring(s, Kth(starts, k), Kth(ends, k) + 1)]

\* s without its whitespace
Squeezed(s) == JoinWith(WordsOf(s), "")

\* the chunks of the reply body published so far: the chain without the
\* separate post of sources
PublishedBodyPosts ==
    IF Len(PublishedTexts) > 0 /\ IsSourcesPost(Last(PublishedTexts))
    THEN SubSeq(PublishedTexts, 1, Len(PublishedTexts) - 1)
    ELSE PublishedTexts

\* the reply body as published: its chunks without their suffixes, joined, and
\* whitespace left aside
PublishedBody == Squeezed(JoinWith(Contents(PublishedBodyPosts), " "))

\* the generation was answered 429, 429 and then OK with a text that is not blank
TwoRateLimitsThenText ==
    /\ Len(FetchEvents) >= 3
    /\ FetchEvents[1].result = "rate-limit"
    /\ FetchEvents[2].result = "rate-limit"
    /\ FetchEvents[3].result = "ok"
    /\ geminiResponse # None
    /\ geminiResponse[1].text # None
    /\ ~IsBlank(geminiResponse[1].text[1])

(***************************************************************************)
(* C12: when the generation is answered 429 twice and then OK with a text  *)
(* that is not empty, the retry loop made exactly three requests and two   *)
(* sleeps before the success, of 1000 ms and then 2000 ms, and the reply   *)
(* is the generated text, not the apology: once every chunk is published   *)
(* the run is done and the published body contains the generated text      *)
(* (whitespace apart, as chunks are trimmed).                               *)
(***************************************************************************)
C12_TwoRateLimitsThenSuccess ==
    TwoRateLimitsThenText =>
        /\ Len(FetchEvents) = 3
        /\ \E p \in DOMAIN events :
               /\ p + 4 <= Len(events)
               /\ SubSeq(events, p, p + 4)
                    = << [op |-> "fetch", attempt |-> 0, result |-> "rate-limit"],
                         [op |-> "sleep", by |-> "safeGeminiCall", attempt |-> 0, delay |-> 1000],
                         [op |-> "fetch", attempt |-> 1, result |-> "rate-limit"],
                         [op |-> "sleep", by |-> "safeGeminiCall", attempt |-> 1, delay |-> 2000],
                         [op |-> "fetch", attempt |-> 2, result |-> "ok"] >>
        /\ Cardinality({i \in DOMAIN events :
                            IsSleep(events[i]) /\ events[i].by = "safeGeminiCall"}) = 2
        /\ raised = <<>>
        /\ summaryText = geminiResponse[1].text[1]
        /\ Includes(baseContent, geminiResponse[1].text[1])
        /\ ~Includes(baseContent, ERROR_TEXT)
        /\ PublishedTexts = SubSeq(postableChunks, 1, Len(PublishedTexts))
        /\ (pc = "settled" /\ ~Exhausted("chain")) =>
               /\ outcome = "done"
               /\ promise = "resolved"
               /\ PublishedTexts = postableChunks
               /\ Includes(PublishedBody, Squeezed(geminiResponse[1].text[1]))
               /\ ~Includes(PublishedBody, Squeezed(ERROR_TEXT))

\* two rate-limit answers, then a 310-character answer, published in two chunks
C12_Witness ==
    /\ TwoRateLimitsThenText
    /\ geminiResponse[1].text[1] = Answer310
    /\ outcome = "done"
    /\ Len(PublishedBodyPosts) = 2

\* the placeholder is up and every chunk of the reply chain was published
ThreadPublished ==
    /\ processingPostRef # None
    /\ outcome = "done"
    /\ Len(postableChunks) >= 1
    /\ PublishedTexts = postableChunks

(***************************************************************************)
(* C13: in a run where the placeholder was published and every chunk of    *)
(* the reply chain is published, a delete of the placeholder post is       *)
(* attempted after the last chunk is created.                              *)
(***************************************************************************)
C13_PlaceholderDeleteAttempted ==
    ThreadPublished =>
        \E i, j \in DOMAIN events :
            /\ IsChainCreated(events[i])
            /\ events[i].text = Last(postableChunks)
            /\ i < j
            /\ events[j].op = "deleteRecord"
            /\ events[j].uri = processingPostRef[1].uri

\* the block of citations was appended to the reply body before the split
SourcesAppended ==
    /\ baseContent = "@" \o data.authorDid \o " Here is your explanation:\n\n"
                         \o summaryText \o formatSources(sources)
    /\ \A i \in DOMAIN PublishedTexts : ~IsSourcesPost(PublishedTexts[i])

\* the citations are one extra post, published after every chunk of the body
SourcesTrail ==
    /\ baseContent = "@" \o data.authorDid \o " Here is your explanation:\n\n" \o summaryText
    /\ Len(PublishedTexts) >= 2
    /\ IsSourcesPost(Last(PublishedTexts))
    /\ \A i \in 1..(Len(PublishedTexts) - 1) : ~IsSourcesPost(PublishedTexts[i])
    /\ \A i \in DOMAIN sources :
           /\ Includes(Last(PublishedTexts), sources[i].title)
           /\ Includes(Last(PublishedTexts), sources[i].uri)

(***************************************************************************)
(* C14: in a run where the generation yields at least one valid citation   *)
(* and every publish succeeds, the citations are in the published thread:  *)
(* appended to the reply body before the split, which happens only when    *)
(* body and block fit under the limit, or else as one extra post after     *)
(* the chunks of the body; exactly one of the two.                         *)
(***************************************************************************)
C14_CitationsNeverDropped ==
    (Len(sources) > 0 /\ outcome = "done") =>
        /\ PublishedTexts = postableChunks
        /\ SourcesAppended \/ SourcesTrail
        /\ ~(SourcesAppended /\ SourcesTrail)
        /\ SourcesAppended => Len(baseContent) < MAX_POST_LENGTH

(***************************************************************************)
(* What splitTextIntoPosts returned, against the text it was given.        *)
(***************************************************************************)
\* the chunk contents in order, suffixes removed, joined by a space
JoinedContents == JoinWith(Contents(splitOutput), " ")

\* the text is longer than the budget, its first 294 characters have no space
\* beyond position 15, and characters 293 and 294 belong to the same word
BudgetCutInsideWord(t) ==
    /\ Len(t) > 294
    /\ \A i \in 16..293 : CharAt(t, i) # " "
    /\ ~IsWhitespace(CharAt(t, 293))
    /\ ~IsWhitespace(CharAt(t, 294))

\* some iteration of the split of t cuts at the budget inside a word
RECURSIVE BreaksAWord(_)
BreaksAWord(t) ==
    IF Len(t) = 0 THEN FALSE
    ELSE BudgetCutInsideWord(t) \/ BreaksAWord(SplitIteration(t).rest)

\* C15 as claimed: the words of every text are those of its chunks
C15_WordsPreserved ==
    splitPc = "done" => WordsOf(JoinedContents) = WordsOf(splitInput)

(***************************************************************************)
(* C15, amended: the chunk contents returned by splitTextIntoPosts         *)
(* (suffixes removed), in order and joined, have the characters of the     *)
(* text in their order, whitespace apart: none is lost, duplicated or      *)
(* reordered.  They give exactly the words of the text in their order      *)
(* unless a chunk was cut at the budget inside a word, which breaks that   *)
(* word in two.                                                            *)
(***************************************************************************)
C15_WordsPreservedUnlessBudgetCut ==
    splitPc = "done" =>
        /\ Squeezed(JoinedContents) = Squeezed(splitInput)
        /\ ~BreaksAWord(splitInput) => WordsOf(JoinedContents) = WordsOf(splitInput)

\* a text of many words returned in three chunks or more, every cut at a space
C15_Witness ==
    /\ splitPc = "done"
    /\ Len(splitOutput) >= 3
    /\ Len(WordsOf(splitInput)) >= 30
    /\ ~BreaksAWord(splitInput)

\* C16 as claimed: every text of at most 294 characters gives one chunk
C16_ShortTextOneChunk ==
    (splitPc = "done" /\ Len(splitInput) <= 294) =>
        /\ Len(splitOutput) = 1
        /\ splitOutput[1] = Trim(splitInput)

(***************************************************************************)
(* C16, amended: for every text that is not empty and whose length is at   *)
(* most 294, splitTextIntoPosts returns exactly one chunk, the text        *)
(* trimmed, without pagination suffix; and any output of a single chunk    *)
(* carries no suffix.                                                      *)
(***************************************************************************)
C16_ShortNonEmptyTextOneChunk ==
    splitPc = "done" =>
        /\ (Len(splitInput) > 0 /\ Len(splitInput) <= 294) =>
               /\ Len(splitOutput) = 1
               /\ splitOutput[1] = Trim(splitInput)
        /\ Len(splitOutput) = 1 =>
               /\ splitOutput = chunks
               /\ ~EndsWith(splitOutput[1], " (1/1)")

\* a text of ten words and 50 characters, returned trimmed as one chunk
C16_Witness ==
    /\ splitPc = "done"
    /\ Len(splitInput) = 50
    /\ Len(WordsOf(splitInput)) = 10
    /\ Len(splitOutput) = 1
    /\ Len(splitOutput[1]) = 49

(***************************************************************************)
(* C17: splitTextIntoPosts applied to the empty text returns the empty     *)
(* sequence.                                                               *)
(***************************************************************************)
C17_EmptyTextNoChunk ==
    (splitPc = "done" /\ Len(splitInput) = 0) => Len(splitOutput) = 0

\* the empty text was split
C17_Witness ==
    /\ splitPc = "done"
    /\ Len(splitInput) = 0
    /\ Len(chunks) = 0

\* the positions beyond 15 of the spaces among the first 294 characters of t
QualifyingSpaces(t) == {i \in 16..293 : i < Len(t) /\ CharAt(t, i) = " "}

\* the loop of splitTextIntoPosts takes a chunk off the remaining text
TakesChunk == splitPc = "loop" /\ chunks' # chunks

(***************************************************************************)
(* C18: in splitTextIntoPosts, when the remaining text is longer than the  *)
(* budget of 294: if its first 294 characters hold a space at a position   *)
(* beyond 15, the chunk is cut at the last such space, so that no word is  *)
(* split; otherwise it is cut exactly at the budget.                       *)
(***************************************************************************)
C18_CutPoint ==
    [][(TakesChunk /\ Len(remainingText) > 294) =>
          IF QualifyingSpaces(remainingText) # {}
          THEN LET cut == CHOOSE i \in QualifyingSpaces(remainingText) :
                              \A j \in QualifyingSpaces(remainingText) : j <= i
               IN  /\ chunks' = Append(chunks, Trim(Substring(remainingText, 0, cut)))
                   /\ remainingText' = Trim(SubstringFrom(remainingText, cut))
                   /\ WordsOf(remainingText)
                        = WordsOf(Last(chunks')) \o WordsOf(remainingText')
          ELSE /\ chunks' = Append(chunks, Trim(Substring(remainingText, 0, 294)))
               /\ remainingText' = Trim(SubstringFrom(remainingText, 294))
      ]_vars

\* a text cut first at its last space, at position 26, and then at the budget
C18_Witness ==
    /\ splitInput = Repeat("a few short words and then " \o Unit294, 2)
    /\ Len(chunks) >= 2
    /\ chunks[1] = "a few short words and then"
    /\ chunks[2] = Unit294

\* the posts of the reply chain of a run whose generation call failed, for
\* the author of the mention: the apology, in one post
FailedRunPosts == << "@" \o data.authorDid \o " Here is your explanation:\n\n" \o ERROR_TEXT >>

(***************************************************************************)
(* C19: a generation call that fails and one that returns empty or blank   *)
(* text are not told apart by the reader: for the same mention and the     *)
(* same publish outcomes both runs publish the same sequence of posts,     *)
(* the apology.  Stated on one run: whichever of the two happened, the     *)
(* posts to publish are those of the failed run, and the posts published   *)
(* so far are the first of them.                                           *)
(***************************************************************************)
C19_FailureAndGarbageAlike ==
    ((AllFetchesFailed \/ BlankAnswer) /\ site = "chain") =>
        /\ postableChunks = FailedRunPosts
        /\ PublishedTexts = SubSeq(FailedRunPosts, 1, Len(PublishedTexts))

\* a call of deleteRecord that failed
DeleteFailedEvent(e) == e.result # "deleted"

(***************************************************************************)
(* C20: deleteRecord is best-effort: whatever the reference and however    *)
(* the platform's delete call or the parsing of the reference fails, the   *)
(* call completes normally: its promise resolves, never rejects, the       *)
(* failure is logged as an error, and the caller goes on as after a        *)
(* delete that succeeded.                                                  *)
(***************************************************************************)
C20_DeleteNeverRaises ==
    /\ \A i \in DOMAIN deletePromise : deletePromise[i] = "resolved"
    /\ Len(deletePromise) = Len(deleteLog)
    /\ \A i \in DOMAIN deleteLog :
           DeleteFailedEvent(deleteLog[i]) <=> deleteLog[i].logger = "error"
    /\ NumDeleteCalls < MaxDeletes => ENABLED DeleteCall(MentionPost.uri, TRUE)

\* a reference that does not parse, then a delete the platform refused: both
\* calls returned
C20_Witness ==
    /\ Len(deleteLog) = 2
    /\ deleteLog[1].result = "invalid-uri"
    /\ deleteLog[2].result = "status"
    /\ deleteLog[2].rkey = Some("3kmention")
    /\ deletePromise = <<"resolved", "resolved">>
    /\ deleteCalls = <<>>

\* the mention of run r, and the root of its thread
MentionOf(r) == PostRef(tasks[r].data.uri, tasks[r].data.cid)

RootOf(r) == PostRef(tasks[r].data.rootUri, tasks[r].data.rootCid)

\* the references of the records run r has created before position i of the feed
CreatedBy(r, i) == {feed[j].ref : j \in {k \in 1..(i - 1) : feed[k].run = r}}

\* every record of the feed is rooted at the thread of its run's mention and
\* replies to that mention or to an earlier record of the same run, and so
\* does the post each run is publishing; the parent pointer of a run is its
\* mention or the record it created last
RunsKeepToTheirThreads ==
    /\ \A i \in DOMAIN feed :
           /\ feed[i].reply.root = RootOf(feed[i].run)
           /\ feed[i].reply.parent \in {MentionOf(feed[i].run)} \cup CreatedBy(feed[i].run, i)
    /\ \A r \in Runs :
           tasks[r].pc \in {"postRecord", "createRecord", "postBackoff"} =>
               /\ tasks[r].replyRef.root = RootOf(r)
               /\ tasks[r].replyRef.parent
                    \in {MentionOf(r)} \cup CreatedBy(r, Len(feed) + 1)
    /\ \A r \in Runs :
           (tasks[r].pc # "idle" /\ tasks[r].site # "guidance") =>
               tasks[r].currentParentRef
                   \in {MentionOf(r)} \cup CreatedBy(r, Len(feed) + 1)

(***************************************************************************)
(* C21: two handleMention runs interleaved in any way at their awaits are  *)
(* independent: every post a run publishes has the root of that run's      *)
(* mention and as parent that mention or a post the same run published     *)
(* earlier, and a step of one run leaves the locals of the other, its      *)
(* parent pointer among them, as they were.                                *)
(***************************************************************************)
C21_RunsIndependent ==
    /\ []RunsKeepToTheirThreads
    /\ [][\E r \in Runs : \A q \in Runs \ {r} : tasks'[q] = tasks[q]]_vars

\* both runs published a chain of two chunks or more in the same thread, their
\* records alternating in the feed
C21_Witness ==
    /\ \A r \in Runs : tasks[r].outcome = "done" /\ tasks[r].chunkIndex >= 2
    /\ RootOf(1) = RootOf(2)
    /\ \E i \in DOMAIN feed :
           /\ i + 3 <= Len(feed)
           /\ feed[i].run = 1 /\ feed[i + 1].run = 2
           /\ feed[i + 2].run = 1 /\ feed[i + 3].run = 2
           /\ feed[i + 2].reply.parent = feed[i].ref
           /\ feed[i + 3].reply.parent = feed[i + 1].ref

\* the placeholder was created before position i of the log
PlaceholderCreatedBefore(i) ==
    \E j \in 1..(i - 1) : Created(events[j]) /\ events[j].site = "placeholder"

\* the generation settled before position i of the log: an OK answer, read or
\* not, or the failure of the last request
GenerationSettledBefore(i) ==
    \E j \in 1..(i - 1) :
        /\ IsFetch(events[j])
        /\ \/ events[j].result \in {"ok", "unreadable"}
           \/ events[j].attempt = geminiRetries - 1

\* the chunks created before position i of the log
ChunksCreatedBefore(i) ==
    Cardinality({j \in 1..(i - 1) : IsChainCreated(events[j])})

(***************************************************************************)
(* C22: the steps of a run are strictly sequential.  A generation request  *)
(* is sent only after the placeholder was created; an attempt to publish a *)
(* chunk is made only after the generation settled; the chunk an attempt   *)
(* publishes is chunk k + 1 exactly when k chunks were created before it,  *)
(* so chunk i + 1 is attempted only after chunk i succeeded; and the one   *)
(* publish in progress is that of the chunk the loop is at.                *)
(***************************************************************************)
C22_StepsSequential ==
    /\ \A i \in DOMAIN events :
           IsFetch(events[i]) => PlaceholderCreatedBefore(i)
    /\ \A i \in DOMAIN events :
           (IsCreate(events[i]) /\ events[i].site = "chain") =>
               /\ GenerationSettledBefore(i)
               /\ ChunksCreatedBefore(i) < Len(postableChunks)
               /\ events[i].text = postableChunks[ChunksCreatedBefore(i) + 1]
    /\ pc \in {"importEnv", "safeGeminiCall", "json", "geminiBackoff"} =>
           /\ PlaceholderCreatedBefore(Len(events) + 1)
           /\ ChunksCreatedBefore(Len(events) + 1) = 0
    /\ (pc \in {"postRecord", "createRecord", "postBackoff"} /\ site = "chain") =>
           /\ GenerationSettledBefore(Len(events) + 1)
           /\ chunkIndex = ChunksCreatedBefore(Len(events) + 1) + 1
           /\ text = postableChunks[chunkIndex]

\* a run that retried the generation, then published three posts or more,
\* one of them at its second attempt
C22_Witness ==
    /\ outcome = "done"
    /\ Len(postableChunks) >= 3
    /\ \E i \in DOMAIN events : IsFetch(events[i]) /\ events[i].result # "ok"
    /\ \E i \in DOMAIN events :
           /\ IsCreate(events[i]) /\ events[i].site = "chain" /\ events[i].result = None
           /\ ChunksCreatedBefore(i) = 1

\* the attempts of postRecord for one post: same call site, text and reply
AttemptsFor(e) ==
    Cardinality({i \in DOMAIN events :
                    /\ IsCreate(events[i])
                    /\ events[i].site = e.site
                    /\ events[i].text = e.text
                    /\ events[i].reply = e.reply})

GenerationRequests == Cardinality({i \in DOMAIN events : IsFetch(events[i])})

TerminalOutcomes == {"guidance", "rejected", "failed", "aborted", "done"}

(***************************************************************************)
(* C23: every run of handleMention terminates, provided every network call *)
(* eventually settles: it makes at most 5 attempts to create each post and *)
(* at most 5 generation requests in all, and a started run reaches a       *)
(* terminal state (guidance sent or not, placeholder failed, chain         *)
(* aborted, done), after which it takes no step.                           *)
(***************************************************************************)
C23_RunTerminates ==
    /\ [](\A i \in DOMAIN events : IsCreate(events[i]) => AttemptsFor(events[i]) <= postRetries)
    /\ [](GenerationRequests <= geminiRetries)
    /\ (promise = "pending") ~> (pc = "settled" /\ outcome \in TerminalOutcomes)
    /\ [](pc = "settled" => ~ENABLED Next)

\* a run that sent five generation requests, the fifth one answered, and then
\* published its thread
C23_Witness ==
    /\ outcome = "done"
    /\ GenerationRequests = geminiRetries
    /\ NumCreated(events) >= 2

\* the reply was composed with the citation block appended to its body
InlineAppended ==
    /\ baseContent # ""
    /\ FitsInline(BaseContent(data.authorDid, summaryText), sources)

(***************************************************************************)
(* C24: whenever handleMention appends the citation block to the body of   *)
(* the reply (the body is shorter than 300 less the length of the block),  *)
(* the reply is a single post: splitTextIntoPosts returns exactly one      *)
(* chunk, without pagination suffix, holding the answer and the citations. *)
(***************************************************************************)
C24_InlineMeansOnePost ==
    InlineAppended => postableChunks = <<Trim(baseContent)>>

\* an attribution that has both fields, as the response carries it
HasBothFields(a) == a.uri # None /\ a.uri[1] # "" /\ a.title # None /\ a.title[1] # ""

\* the attributions of the response received
Attributions ==
    IF geminiResponse # None /\ geminiResponse[1].attributions # None
    THEN geminiResponse[1].attributions[1]
    ELSE <<>>

KeptAttributions == SelectSeq(Attributions, HasBothFields)

\* the attributions of the response that lack a field
DroppedAttributions ==
    {Attributions[i] : i \in {j \in DOMAIN Attributions : ~HasBothFields(Attributions[j])}}

\* the fields they do have
DroppedFields ==
    {a.uri[1] : a \in {x \in DroppedAttributions : x.uri # None}}
    \cup {a.title[1] : a \in {x \in DroppedAttributions : x.title # None}}

(***************************************************************************)
(* C25: the citations extracted from a response are exactly its            *)
(* attributions that have both a uri and a title, in the order of the      *)
(* response; the others are dropped.  An attribution with a missing field  *)
(* does not make the run fail (the answer is kept, nothing is thrown by    *)
(* the extraction) and nothing of it appears in a published post.          *)
(***************************************************************************)
C25_CitationsFiltered ==
    geminiResponse # None =>
        /\ Len(sources) = Len(KeptAttributions)
        /\ \A i \in DOMAIN sources :
               /\ sources[i].uri = KeptAttributions[i].uri[1]
               /\ sources[i].title = KeptAttributions[i].title[1]
        /\ summaryText = SummaryOf(geminiResponse[1])
        /\ \A i \in DOMAIN raised : raised[i].by # "safeGeminiCall"
        /\ \A field \in DroppedFields :
               \A i \in DOMAIN events :
                   Created(events[i]) => ~Includes(events[i].text, field)

\* a response with four attributions, two of them lacking a field: the two
\* others were published, in their order, in a thread that is complete
C25_Witness ==
    /\ outcome = "done"
    /\ Len(Attributions) = 4
    /\ Len(sources) = 2
    /\ sources[1].uri = GoodAttribution.uri[1]
    /\ sources[2].uri = SecondAttribution.uri[1]
    /\ Cardinality(DroppedFields) = 2
    /\ \A k \in DOMAIN sources :
           \E i \in DOMAIN events :
               Created(events[i]) /\ Includes(events[i].text, sources[k].uri)

(***************************************************************************)
(* C26: when splitTextIntoPosts returns n chunks, n > 1, the chunk at      *)
(* position i (from 1) is the i-th chunk of the loop followed by the       *)
(* suffix ' (i/n)': the positions run 1, 2, ..., n with no gap and no      *)
(* repetition.                                                             *)
(***************************************************************************)
C26_ChunksNumbered ==
    (splitPc = "done" /\ Len(splitOutput) > 1) =>
        /\ Len(splitOutput) = Len(chunks)
        /\ \A i \in DOMAIN splitOutput :
               splitOutput[i] = chunks[i] \o SuffixOf(i, Len(splitOutput))

\* a text split into ten chunks or more: the suffixes have one digit and two
C26_Witness ==
    /\ splitPc = "done"
    /\ Len(splitOutput) >= 10
    /\ EndsWith(splitOutput[1], " (1/" \o NumberToString(Len(splitOutput)) \o ")")
    /\ EndsWith(splitOutput[10], " (10/" \o NumberToString(Len(splitOutput)) \o ")")

(***************************************************************************)
(* C27: splitTextIntoPosts terminates on every input: each iteration of    *)
(* its loop removes at least one character from the remaining text, so the *)
(* iterations, and the chunks, are at most as many as the characters of    *)
(* the input.                                                              *)
(***************************************************************************)
C27_SplitTerminates ==
    /\ [][TakesChunk => Len(remainingText') < Len(remainingText)]_vars
    /\ [](Len(chunks) <= Len(splitInput))
    /\ [](Len(remainingText) <= Len(splitInput))

\* a text without any space, cut ten times at the budget
C27_Witness ==
    /\ splitPc = "done"
    /\ Len(chunks) >= 10
    /\ LastIndexOf(splitInput, " ") < 0

\* how many of the posts of the reply come from the split: all but the
\* separate sources post
NumSplitChunks ==
    IF Len(postableChunks) > 0 /\ IsSourcesPost(Last(postableChunks))
    THEN Len(postableChunks) - 1
    ELSE Len(postableChunks)

\* chunk i of n of the reply, without its pagination suffix
ChunkContent(i, n) ==
    IF n > 1
    THEN Substring(postableChunks[i], 0, Len(postableChunks[i]) - Len(SuffixOf(i, n)))
    ELSE postableChunks[i]

\* s is not empty and neither starts nor ends with whitespace
NonEmptyTrimmed(s) ==
    /\ Len(s) > 0
    /\ ~IsWhitespace(CharAt(s, 0))
    /\ ~IsWhitespace(CharAt(s, Len(s) - 1))

(***************************************************************************)
(* C28: no post published by handleMention has empty content: every text   *)
(* handed to the record-creation call holds a character that is not a      *)
(* blank, and every chunk that splitTextIntoPosts makes of the composed     *)
(* reply is non-empty, trimmed, before its pagination suffix is added.      *)
(***************************************************************************)
C28_NoEmptyPost ==
    /\ \A i \in DOMAIN events : IsCreate(events[i]) => ~IsBlank(events[i].text)
    /\ pc \in {"postRecord", "createRecord"} => ~IsBlank(text)
    /\ \A i \in 1..NumSplitChunks : NonEmptyTrimmed(ChunkContent(i, NumSplitChunks))
    /\ NumSplitChunks < Len(postableChunks) => ~IsBlank(Last(postableChunks))

\* the answer that ends in blanks just past the budget was published: one
\* chunk, the blanks trimmed away
C28_Witness ==
    /\ outcome = "done"
    /\ summaryText = AnswerTrailingBlank
    /\ Len(baseContent) > maxContentLength
    /\ NumSplitChunks = 1
    /\ \E i \in DOMAIN events : Created(events[i]) /\ events[i].text = Trim(baseContent)

====
